---- MODULE Spec2Model ----
(***************************************************************************)
(* Model of agent_docs/level-creation/cave_generation.py: the cave         *)
(* generation pipeline generate_cave (seeding, cellular automaton, region  *)
(* discovery, corridor carving, micro-smoothing) and its helper functions. *)
(* A grid is a function grid[y][x] with 0-based rows y and columns x, as   *)
(* the numpy array grid[y, x] of the source.  A cell is a pair <<y, x>>,   *)
(* as the rows of np.argwhere.  Random draws are in tenths: a draw d       *)
(* stands for random() = d/10 and fill_prob f for f/10.                    *)
(***************************************************************************)
EXTENDS Integers, Sequences, FiniteSets

WALL == 1
FLOOR == 0

\* Bounds of the model.
MaxW == 7
MaxH == 5
MaxArea == 21
MaxFnArea == 30
MaxSteps == 1
MaxMinRegion == 2
MaxPasses == 1

VARIABLES params, pc, grid, prev, last, draws, steps_done, regions, main,
          ri, carved, args, finds, passes_done

vars == <<params, pc, grid, prev, last, draws, steps_done, regions, main,
          ri, carved, args, finds, passes_done>>

----------------------------------------------------------------------------
\* Helpers of the source.

abs(n) == IF n < 0 THEN -n ELSE n

min(a, b) == IF a < b THEN a ELSE b

max(a, b) == IF a > b THEN a ELSE b

is_edge_off_by_one(x, y, width, height) ==
    x = 0 \/ y = 0 \/ x = width \/ y = height

is_edge(x, y, width, height) ==
    x = 0 \/ y = 0 \/ x = width - 1 \/ y = height - 1

\* The 8 offsets (dx, dy) of the double loop, the centre skipped.
Offsets == {d \in (-1..1) \X (-1..1) : ~(d[1] = 0 /\ d[2] = 0)}

count_wall_neighbors_inbounds_only(g, x, y, width, height) ==
    Cardinality({d \in Offsets :
        /\ 0 <= x + d[1] /\ x + d[1] < width
        /\ 0 <= y + d[2] /\ y + d[2] < height
        /\ g[y + d[2]][x + d[1]] = WALL})

count_wall_neighbors(g, x, y, width, height) ==
    Cardinality({d \in Offsets :
        IF /\ 0 <= x + d[1] /\ x + d[1] < width
           /\ 0 <= y + d[2] /\ y + d[2] < height
        THEN g[y + d[2]][x + d[1]] = WALL
        ELSE TRUE})

\* Cells of a height x width array in row-major order (the order of
\* np.argwhere and of the y-outer, x-inner loops).
Raster(width, height) ==
    [k \in 1..(width * height) |-> <<(k - 1) \div width, (k - 1) % width>>]

Cells(width, height) == (0..(height - 1)) \X (0..(width - 1))

Width(g) == IF DOMAIN g = {} THEN 0 ELSE Cardinality(DOMAIN g[0])

Height(g) == Cardinality(DOMAIN g)

Range(s) == {s[i] : i \in DOMAIN s}

\* Two cells are 8-adjacent (the 3x3 structure of all ones).
Adjacent(c, d) == c # d /\ abs(c[1] - d[1]) <= 1 /\ abs(c[2] - d[2]) <= 1

RECURSIVE Grow(_, _)
Grow(S, pool) ==
    LET next == {c \in pool \ S : \E d \in S : Adjacent(c, d)}
    IN  IF next = {} THEN S ELSE Grow(S \cup next, pool)

\* The component of cell c among the cells of pool.
Component(c, pool) == Grow({c}, pool)

RECURSIVE LabelFrom(_, _, _, _)
LabelFrom(order, k, pool, acc) ==
    IF k > Len(order) THEN acc
    ELSE IF order[k] \in pool /\ \A i \in DOMAIN acc : order[k] \notin Range(acc[i])
         THEN LET comp == Component(order[k], pool)
              IN  LabelFrom(order, k + 1, pool,
                      Append(acc, SelectSeq(order, LAMBDA c : c \in comp)))
         ELSE LabelFrom(order, k + 1, pool, acc)

flood_fill_regions_labels_walls(g) ==
    LET w == Width(g)
        h == Height(g)
        pool == {c \in Cells(w, h) : g[c[1]][c[2]] = WALL}
    IN  LabelFrom(Raster(w, h), 1, pool, <<>>)

\* scipy.ndimage.label of (grid == FLOOR) with the full 3x3 structure, then
\* one np.argwhere per label: regions in order of their first cell in raster
\* order, the cells of a region in raster order.
flood_fill_regions(g) ==
    LET w == Width(g)
        h == Height(g)
        pool == {c \in Cells(w, h) : g[c[1]][c[2]] = FLOOR}
    IN  LabelFrom(Raster(w, h), 1, pool, <<>>)

\* max(regions, key=len) returns the first region of maximal length.
largest_region(rs) ==
    IF rs # <<>>
    THEN rs[CHOOSE i \in DOMAIN rs :
                /\ \A j \in DOMAIN rs : Len(rs[j]) <= Len(rs[i])
                /\ \A j \in DOMAIN rs : j < i => Len(rs[j]) < Len(rs[i])]
    ELSE <<>>

Dist(p, q) == abs(p[2] - q[2]) + abs(p[1] - q[1])

RECURSIVE ScanPairsLastMin(_, _, _, _)
ScanPairsLastMin(a, b, k, acc) ==
    IF k >= Len(a) * Len(b) THEN acc
    ELSE LET p == a[(k \div Len(b)) + 1]
             q == b[(k % Len(b)) + 1]
         IN  IF acc.inf \/ Dist(p, q) <= acc.min_dist
             THEN ScanPairsLastMin(a, b, k + 1,
                      [inf |-> FALSE, min_dist |-> Dist(p, q), best_pair |-> <<p, q>>])
             ELSE ScanPairsLastMin(a, b, k + 1, acc)

best_pair_last_min(a, b) ==
    ScanPairsLastMin(a, b, 0,
        [inf |-> TRUE, min_dist |-> 0, best_pair |-> <<a[1], b[1]>>]).best_pair

\* The double loop over region_a (outer) and region_b (inner); k counts the
\* iterations, acc.inf says min_dist is still float('inf').
RECURSIVE ScanPairs(_, _, _, _)
ScanPairs(a, b, k, acc) ==
    IF k >= Len(a) * Len(b) THEN acc
    ELSE LET p == a[(k \div Len(b)) + 1]
             q == b[(k % Len(b)) + 1]
         IN  IF acc.inf \/ Dist(p, q) < acc.min_dist
             THEN ScanPairs(a, b, k + 1,
                      [inf |-> FALSE, min_dist |-> Dist(p, q), best_pair |-> <<p, q>>])
             ELSE ScanPairs(a, b, k + 1, acc)

best_pair(a, b) ==
    ScanPairs(a, b, 0,
        [inf |-> TRUE, min_dist |-> 0, best_pair |-> <<a[1], b[1]>>]).best_pair

\* The cells the corridor writes; coin is random.random() < 0.5.
CorridorCells(p, q, coin) ==
    LET y1 == p[1]
        x1 == p[2]
        y2 == q[1]
        x2 == q[2]
        xs == min(x1, x2)..max(x1, x2)
        ys == min(y1, y2)..max(y1, y2)
    IN  IF coin
        THEN {<<y1, x>> : x \in xs} \cup {<<y, x2>> : y \in ys}
        ELSE {<<y, x1>> : y \in ys} \cup {<<y2, x>> : x \in xs}

carve_corridor_wrong_corner(g, region_a, region_b, coin) ==
    LET bp == best_pair(region_a, region_b)
        p == bp[1]
        q == bp[2]
        xs == min(p[2], q[2])..max(p[2], q[2])
        ys == min(p[1], q[1])..max(p[1], q[1])
        cut == IF coin
               THEN {<<p[1], x>> : x \in xs} \cup {<<y, p[2]>> : y \in ys}
               ELSE {<<y, p[2]>> : y \in ys} \cup {<<p[1], x>> : x \in xs}
    IN  [y \in DOMAIN g |-> [x \in DOMAIN g[y] |->
            IF <<y, x>> \in cut THEN FLOOR ELSE g[y][x]]]

carve_corridor(g, region_a, region_b, coin) ==
    LET bp == best_pair(region_a, region_b)
        cut == CorridorCells(bp[1], bp[2], coin)
    IN  [y \in DOMAIN g |-> [x \in DOMAIN g[y] |->
            IF <<y, x>> \in cut THEN FLOOR ELSE g[y][x]]]

micro_smooth_wall_from_five(g, width, height) ==
    [y \in DOMAIN g |-> [x \in DOMAIN g[y] |->
        IF 1 <= y /\ y <= height - 2 /\ 1 <= x /\ x <= width - 2
        THEN LET n == count_wall_neighbors(g, x, y, width, height)
             IN  IF n >= 5 THEN WALL
                 ELSE IF n < 3 THEN FLOOR
                 ELSE g[y][x]
        ELSE g[y][x]]]

\* new_grid is a copy; only interior cells are rewritten, each from the
\* neighbour count in the input grid.
micro_smooth(g, width, height) ==
    [y \in DOMAIN g |-> [x \in DOMAIN g[y] |->
        IF 1 <= y /\ y <= height - 2 /\ 1 <= x /\ x <= width - 2
        THEN LET n == count_wall_neighbors(g, x, y, width, height)
             IN  IF n > 5 THEN WALL
                 ELSE IF n < 3 THEN FLOOR
                 ELSE g[y][x]
        ELSE g[y][x]]]

RECURSIVE AutomatonPassInPlace(_, _, _, _, _)
AutomatonPassInPlace(new_grid, order, k, birth, survive) ==
    IF k > Len(order) THEN new_grid
    ELSE LET y == order[k][1]
             x == order[k][2]
             n == count_wall_neighbors(new_grid, x, y,
                      Width(new_grid), Height(new_grid))
             v == IF new_grid[y][x] = WALL
                  THEN (IF n >= survive THEN WALL ELSE FLOOR)
                  ELSE (IF n >= birth THEN WALL ELSE FLOOR)
         IN  AutomatonPassInPlace([new_grid EXCEPT ![y][x] = v], order, k + 1,
                 birth, survive)

automaton_step_in_place(g, width, height, birth, survive) ==
    AutomatonPassInPlace(g, Raster(width, height), 1, birth, survive)

\* The y, x double loop of one automaton step: reads g, writes new_grid.
RECURSIVE AutomatonPass(_, _, _, _, _, _)
AutomatonPass(g, new_grid, order, k, birth, survive) ==
    IF k > Len(order) THEN new_grid
    ELSE LET y == order[k][1]
             x == order[k][2]
             n == count_wall_neighbors(g, x, y, Width(g), Height(g))
             v == IF g[y][x] = WALL
                  THEN (IF n >= survive THEN WALL ELSE FLOOR)
                  ELSE (IF n >= birth THEN WALL ELSE FLOOR)
         IN  AutomatonPass(g, [new_grid EXCEPT ![y][x] = v], order, k + 1,
                 birth, survive)

\* One iteration of "for _ in range(steps)": new_grid starts as a copy.
automaton_step(g, width, height, birth, survive) ==
    AutomatonPass(g, g, Raster(width, height), 1, birth, survive)

\* The seeding loop; d[<<y, x>>] is the draw made for the non-edge cell.
seed_grid(d, width, height, fill_p) ==
    [y \in 0..(height - 1) |-> [x \in 0..(width - 1) |->
        IF is_edge(x, y, width, height) THEN WALL
        ELSE IF d[<<y, x>>] < fill_p THEN WALL ELSE FLOOR]]

\* The cells for which the seeding loop calls random.random().
DrawCells(width, height) ==
    {c \in Cells(width, height) : ~is_edge(c[2], c[1], width, height)}

should_carve_strict(region, main_region, min_region) ==
    Len(region) > min_region /\ region # main_region

\* len(region) >= min_region and not np.array_equal(region, main)
should_carve(region, main_region, min_region) ==
    Len(region) >= min_region /\ region # main_region

----------------------------------------------------------------------------
\* generate_cave as a state machine.  pc is the position in generate_cave,
\* last the operation that produced the current grid, prev the grid before
\* that operation.  carved, args and finds record the calls made.

FillVals == {5, 10}

DrawVals == {2, 7}

BirthVals == {5, 9}

SurviveVals == {5, 6}

Shapes(area) ==
    {s \in (1..MaxW) \X (1..MaxH) : s[1] * s[2] <= area}

ParamSets ==
    {[width |-> s[1], height |-> s[2], fill_prob |-> f, birth |-> b,
      survive |-> sv, ca_steps |-> st, min_region |-> mr,
      smoothing_passes |-> sp] :
        s \in Shapes(MaxArea), f \in FillVals, b \in BirthVals,
        sv \in SurviveVals, st \in 0..MaxSteps, mr \in 0..MaxMinRegion,
        sp \in 0..MaxPasses}

NoArgs == [a |-> <<>>, b |-> <<>>, coin |-> FALSE]

\* np.zeros((height, width), dtype=int)
zeros(width, height) ==
    [y \in 0..(height - 1) |-> [x \in 0..(width - 1) |-> 0]]

Init ==
    /\ params \in ParamSets
    /\ pc = "seed"
    /\ grid = zeros(params.width, params.height)
    /\ prev = grid
    /\ last = "zeros"
    /\ draws = <<>>
    /\ steps_done = 0
    /\ regions = <<>>
    /\ main = <<>>
    /\ ri = 0
    /\ carved = <<>>
    /\ args = NoArgs
    /\ finds = 0
    /\ passes_done = 0

\* Lines 85-90: the seeding loop.
Seed ==
    /\ pc = "seed"
    /\ \E d \in [DrawCells(params.width, params.height) -> DrawVals] :
        /\ draws' = d
        /\ grid' = seed_grid(d, params.width, params.height, params.fill_prob)
    /\ prev' = grid
    /\ last' = "seed"
    /\ pc' = "automaton"
    /\ UNCHANGED <<params, steps_done, regions, main, ri, carved, args, finds,
                   passes_done>>

\* Lines 92-101: one iteration of the automaton loop.
AutomatonStep ==
    /\ pc = "automaton"
    /\ steps_done < params.ca_steps
    /\ grid' = automaton_step(grid, params.width, params.height,
                   params.birth, params.survive)
    /\ prev' = grid
    /\ last' = "step"
    /\ steps_done' = steps_done + 1
    /\ UNCHANGED <<params, pc, draws, regions, main, ri, carved, args, finds,
                   passes_done>>

\* Lines 103-105: region discovery and the choice of main, after the last
\* automaton step.  With no region the carving loop is skipped.
FindRegions ==
    /\ pc = "automaton"
    /\ steps_done = params.ca_steps
    /\ regions' = flood_fill_regions(grid)
    /\ finds' = finds + 1
    /\ IF regions' # <<>>
       THEN /\ main' = largest_region(regions')
            /\ ri' = 1
            /\ pc' = "carve"
       ELSE /\ main' = main
            /\ ri' = ri
            /\ pc' = "smooth"
    /\ last' = "find"
    /\ UNCHANGED <<params, grid, prev, draws, steps_done, carved, args,
                   passes_done>>

\* Lines 106-108: one iteration of "for region in regions" that carves.
CarveRegion ==
    /\ pc = "carve"
    /\ ri <= Len(regions)
    /\ should_carve(regions[ri], main, params.min_region)
    /\ \E coin \in BOOLEAN :
        /\ grid' = carve_corridor(grid, main, regions[ri], coin)
        /\ args' = [a |-> main, b |-> regions[ri], coin |-> coin]
    /\ prev' = grid
    /\ last' = "carve"
    /\ carved' = Append(carved, ri)
    /\ ri' = ri + 1
    /\ pc' = IF ri = Len(regions) THEN "smooth" ELSE "carve"
    /\ UNCHANGED <<params, draws, steps_done, regions, main, finds,
                   passes_done>>

\* Lines 106-107: one iteration of "for region in regions" that does not.
SkipRegion ==
    /\ pc = "carve"
    /\ ri <= Len(regions)
    /\ ~should_carve(regions[ri], main, params.min_region)
    /\ ri' = ri + 1
    /\ pc' = IF ri = Len(regions) THEN "smooth" ELSE "carve"
    /\ UNCHANGED <<params, grid, prev, last, draws, steps_done, regions, main,
                   carved, args, finds, passes_done>>

\* Lines 110-111: one micro-smoothing pass.
Smooth ==
    /\ pc = "smooth"
    /\ passes_done < params.smoothing_passes
    /\ grid' = micro_smooth(grid, params.width, params.height)
    /\ prev' = grid
    /\ last' = "smooth"
    /\ passes_done' = passes_done + 1
    /\ UNCHANGED <<params, pc, draws, steps_done, regions, main, ri, carved,
                   args, finds>>

\* Line 113: return grid.
Return ==
    /\ pc = "smooth"
    /\ passes_done = params.smoothing_passes
    /\ pc' = "done"
    /\ UNCHANGED <<params, grid, prev, last, draws, steps_done, regions, main,
                   ri, carved, args, finds, passes_done>>

Next ==
    \/ Seed
    \/ AutomatonStep
    \/ FindRegions
    \/ CarveRegion
    \/ SkipRegion
    \/ Smooth
    \/ Return

Spec == Init /\ [][Next]_vars

----------------------------------------------------------------------------
\* The functions on their own: flood_fill_regions, carve_corridor and
\* micro_smooth applied once to a grid with WALL borders and any interior
\* (every such grid is the seeding of some draws).

FnParams ==
    {[width |-> s[1], height |-> s[2], fill_prob |-> 5, birth |-> 5,
      survive |-> 4, ca_steps |-> 0, min_region |-> 0,
      smoothing_passes |-> 1] : s \in Shapes(MaxFnArea)}

FnInit ==
    /\ params \in FnParams
    /\ pc = "fn"
    /\ \E d \in [DrawCells(params.width, params.height) -> DrawVals] :
        /\ draws = d
        /\ grid = seed_grid(d, params.width, params.height, params.fill_prob)
    /\ prev = zeros(params.width, params.height)
    /\ last = "seed"
    /\ steps_done = 0
    /\ regions = <<>>
    /\ main = <<>>
    /\ ri = 0
    /\ carved = <<>>
    /\ args = NoArgs
    /\ finds = 0
    /\ passes_done = 0

\* carve_corridor(grid, region_a, region_b) for any two distinct regions.
FnCarve ==
    /\ pc = "fn"
    /\ regions' = flood_fill_regions(grid)
    /\ \E i \in DOMAIN regions', j \in DOMAIN regions', coin \in BOOLEAN :
        /\ i # j
        /\ grid' = carve_corridor(grid, regions'[i], regions'[j], coin)
        /\ args' = [a |-> regions'[i], b |-> regions'[j], coin |-> coin]
    /\ prev' = grid
    /\ last' = "carve"
    /\ pc' = "fn_done"
    /\ UNCHANGED <<params, draws, steps_done, main, ri, carved, finds,
                   passes_done>>

\* micro_smooth(grid, width, height)
FnSmooth ==
    /\ pc = "fn"
    /\ grid' = micro_smooth(grid, params.width, params.height)
    /\ prev' = grid
    /\ last' = "smooth"
    /\ pc' = "fn_done"
    /\ UNCHANGED <<params, draws, steps_done, regions, main, ri, carved, args,
                   finds, passes_done>>

FnNext ==
    \/ FnCarve
    \/ FnSmooth

SpecFn == FnInit /\ [][FnNext]_vars

----------------------------------------------------------------------------
\* Vocabulary of the properties.

W == params.width

H == params.height

\* Row 0, row height-1, column 0 and column width-1.
BorderCells ==
    {c \in Cells(W, H) : c[1] = 0 \/ c[1] = H - 1 \/ c[2] = 0 \/ c[2] = W - 1}

\* 1 <= x <= width-2 and 1 <= y <= height-2.
InteriorCells ==
    {c \in Cells(W, H) : 1 <= c[1] /\ c[1] <= H - 2 /\ 1 <= c[2] /\ c[2] <= W - 2}

At(g, c) == g[c[1]][c[2]]

BorderIsWall == \A c \in BorderCells : At(grid, c) = WALL

\* The 8 neighbour positions of a cell, in or out of the grid.
NeighbourPositions(c) ==
    {<<c[1] + dy, c[2] + dx>> : dy \in {-1, 0, 1}, dx \in {-1, 0, 1}} \ {c}

\* Whether position d lies in the grid.
InGrid(d) == 0 <= d[1] /\ d[1] < H /\ 0 <= d[2] /\ d[2] < W

\* Wall neighbours of c in g: of the 8 neighbour positions, all but the
\* FLOOR cells of the grid (a position out of the grid counts as WALL).
WallsAround(g, c) ==
    8 - Cardinality({d \in NeighbourPositions(c) : InGrid(d) /\ At(g, d) = FLOOR})

\* The FLOOR cells of g, and whether two of them are joined by a chain of
\* 8-adjacent FLOOR cells.
FloorCells(g) == {c \in Cells(W, H) : At(g, c) = FLOOR}

Connected(g, c, d) == d \in Component(c, FloorCells(g))

\* The number of 8-connected FLOOR components of g.
RECURSIVE CountComponents(_)
CountComponents(pool) ==
    IF pool = {} THEN 0
    ELSE LET c == CHOOSE c \in pool : TRUE
         IN  1 + CountComponents(pool \ Component(c, pool))

NumFloorRegions(g) == CountComponents(FloorCells(g))

----------------------------------------------------------------------------
\* C7: immediately after the seeding loop every border cell is WALL and
\* every other cell is WALL iff its own draw is below fill_prob, else FLOOR.
SeedingForcesBorder ==
    last = "seed" =>
        \A c \in Cells(W, H) :
            IF c \in BorderCells
            THEN At(grid, c) = WALL
            ELSE At(grid, c) = (IF draws[c] < params.fill_prob THEN WALL ELSE FLOOR)

SeedingForcesBorderWitness ==
    /\ last = "seed"
    /\ pc = "automaton"
    /\ \E c \in InteriorCells : At(grid, c) = WALL
    /\ \E c \in InteriorCells : At(grid, c) = FLOOR

\* C2: in every grid state after seeding (after each automaton step, each
\* carve, each micro-smoothing pass and on return) all border cells are WALL,
\* for every parameter set.
BorderAlwaysWall == last # "zeros" => BorderIsWall

\* C9: with survive <= 5 no border cell ever becomes FLOOR: every border
\* cell has at least 5 wall neighbours and is WALL, every region cell is an
\* interior cell, a carve changes interior cells only, and a micro-smoothing
\* pass changes no border cell.
BorderWallWhenSurviveAtMostFive ==
    (params.survive <= 5 /\ last # "zeros") =>
        /\ BorderIsWall
        /\ \A c \in BorderCells : WallsAround(grid, c) >= 5
        /\ \A i \in DOMAIN regions : Range(regions[i]) \subseteq InteriorCells
        /\ last \in {"carve", "smooth"} =>
               \A c \in BorderCells : At(grid, c) = At(prev, c)
        /\ last = "carve" =>
               {c \in Cells(W, H) : At(grid, c) # At(prev, c)} \subseteq InteriorCells

BorderWallWhenSurviveAtMostFiveWitness ==
    /\ params.survive <= 5
    /\ pc = "done"
    /\ steps_done >= 1
    /\ carved # <<>>
    /\ passes_done >= 1
    /\ \E c \in InteriorCells : At(grid, c) = FLOOR

\* C3: an automaton step is synchronous: every cell of the new grid, border
\* cells included, follows from the grid before the step alone, with n the
\* wall neighbours (out-of-grid positions counted as WALL): a WALL cell is
\* WALL iff n >= survive, a FLOOR cell is WALL iff n >= birth.
AutomatonStepIsSynchronous ==
    last = "step" =>
        \A c \in Cells(W, H) :
            LET n == WallsAround(prev, c)
            IN  IF At(prev, c) = WALL
                THEN At(grid, c) = WALL <=> n >= params.survive
                ELSE At(grid, c) = WALL <=> n >= params.birth

AutomatonStepIsSynchronousWitness ==
    /\ last = "step"
    /\ \E c \in Cells(W, H), d \in Cells(W, H) :
        /\ Adjacent(c, d)
        /\ At(prev, c) = WALL /\ At(grid, c) = FLOOR
        /\ At(prev, d) = FLOOR /\ At(grid, d) = WALL

\* The regions that generate_cave hands to carve_corridor: those of size
\* >= min_region that are not the largest region.
CarveTargets ==
    {i \in DOMAIN regions :
        Len(regions[i]) >= params.min_region /\ regions[i] # largest_region(regions)}

\* C4: regions are discovered exactly once, after the last automaton step
\* and before any carving; carve_corridor is applied exactly once to each
\* discovered region of size >= min_region other than the main region, each
\* time against the main region as discovered, and to no other region.
CarveOncePerEligibleRegion ==
    /\ finds <= 1
    /\ pc \in {"carve", "smooth", "done"} => finds = 1
    /\ last = "find" =>
        /\ regions = flood_fill_regions(grid)
        /\ steps_done = params.ca_steps
        /\ carved = <<>>
    /\ \A k \in DOMAIN carved : carved[k] \in CarveTargets
    /\ \A k \in DOMAIN carved : \A l \in DOMAIN carved : carved[k] = carved[l] => k = l
    /\ pc = "carve" => Range(carved) = {i \in CarveTargets : i < ri}
    /\ pc \in {"smooth", "done"} => Range(carved) = CarveTargets
    /\ last = "carve" =>
        /\ args.a = largest_region(regions)
        /\ args.b = regions[carved[Len(carved)]]
        /\ \A c \in Range(args.a) : At(prev, c) = FLOOR

CarveOncePerEligibleRegionWitness ==
    /\ pc = "done"
    /\ params.min_region = 0
    /\ Len(carved) >= 2
    /\ \E k \in DOMAIN carved : Len(regions[carved[k]]) = 1

\* C8: when the grid after the automaton steps has no FLOOR cell, region
\* discovery yields no region, largest_region of that yields the empty
\* region, carve_corridor is never called, the micro-smoothing passes still
\* run and a height x width grid is returned.
NoFloorStillReturnsGrid ==
    /\ (last = "find" /\ FloorCells(grid) = {}) =>
        /\ regions = <<>>
        /\ largest_region(regions) = <<>>
        /\ pc \in {"smooth", "done"}
    /\ (finds = 1 /\ regions = <<>>) =>
        /\ carved = <<>>
        /\ pc \in {"smooth", "done"}
        /\ pc = "done" =>
            /\ passes_done = params.smoothing_passes
            /\ DOMAIN grid = 0..(H - 1)
            /\ \A y \in DOMAIN grid : DOMAIN grid[y] = 0..(W - 1)

NoFloorStillReturnsGridWitness ==
    /\ pc = "done"
    /\ finds = 1
    /\ regions = <<>>
    /\ last = "smooth"
    /\ W >= 3
    /\ H >= 3

\* C1: after carve_corridor(grid, main, candidate), for either orientation,
\* every cell of both regions is FLOOR and all of them lie in one 8-connected
\* FLOOR component; when the grid held exactly these two regions, region
\* discovery on the result yields exactly 1 region, holding all their cells.
CarveJoinsRegions ==
    last = "carve" =>
        LET both == Range(args.a) \cup Range(args.b)
            rs == flood_fill_regions(grid)
        IN  /\ args.a # <<>> /\ args.b # <<>>
            /\ \A c \in both : At(grid, c) = FLOOR
            /\ both \subseteq Component(args.a[1], FloorCells(grid))
            /\ Len(regions) = 2 => (Len(rs) = 1 /\ both \subseteq Range(rs[1]))

CarveJoinsRegionsWitness ==
    /\ last = "carve"
    /\ Len(regions) = 2
    /\ ~args.coin
    /\ LET bp == best_pair(args.a, args.b)
       IN  bp[1][1] # bp[2][1] /\ bp[1][2] # bp[2][2]
    /\ Len(flood_fill_regions(grid)) = 1

\* The position of cell c in region r.
IndexOf(r, c) == CHOOSE i \in DOMAIN r : r[i] = c

\* C5: the endpoint pair of carve_corridor has the minimum Manhattan
\* distance over main x candidate, and among the pairs at that distance it
\* is the first of the scan with main in the outer loop and candidate in the
\* inner loop, each in region order.
EndpointsAreFirstNearestPair ==
    last = "carve" =>
        LET a == args.a
            b == args.b
            bp == best_pair(a, b)
            i0 == IndexOf(a, bp[1])
            j0 == IndexOf(b, bp[2])
        IN  /\ bp[1] \in Range(a)
            /\ bp[2] \in Range(b)
            /\ \A i \in DOMAIN a : \A j \in DOMAIN b :
                /\ Dist(bp[1], bp[2]) <= Dist(a[i], b[j])
                /\ Dist(a[i], b[j]) = Dist(bp[1], bp[2]) =>
                       (i > i0 \/ (i = i0 /\ j >= j0))
            /\ \A c \in CorridorCells(bp[1], bp[2], args.coin) : At(grid, c) = FLOOR
            /\ \A c \in Cells(W, H) \ CorridorCells(bp[1], bp[2], args.coin) :
                   At(grid, c) = At(prev, c)

EndpointsAreFirstNearestPairWitness ==
    /\ last = "carve"
    /\ LET a == args.a
           b == args.b
           bp == best_pair(a, b)
       IN  /\ \E i \in DOMAIN a : \E j \in DOMAIN b :
                /\ <<a[i], b[j]>> # bp
                /\ Dist(a[i], b[j]) = Dist(bp[1], bp[2])
           /\ bp # <<a[1], b[1]>>

\* Every interior cell of g has a wall-neighbour count in [3,5].
InteriorCountsInThreeToFive(g) ==
    \A c \in InteriorCells : WallsAround(g, c) >= 3 /\ WallsAround(g, c) <= 5

\* C6: on a grid whose interior cells all have a wall-neighbour count in
\* [3,5], micro_smooth returns the grid unchanged in every cell, and so does
\* a further pass.
MicroSmoothFixesSettledGrid ==
    (last = "smooth" /\ InteriorCountsInThreeToFive(prev)) =>
        /\ grid = prev
        /\ micro_smooth(grid, W, H) = grid

MicroSmoothFixesSettledGridWitness ==
    /\ last = "smooth"
    /\ InteriorCountsInThreeToFive(prev)
    /\ \E c \in InteriorCells : At(prev, c) = WALL
    /\ \E c \in InteriorCells : At(prev, c) = FLOOR /\ WallsAround(prev, c) = 5

\* C10: micro_smooth keeps a connected cave connected: when the FLOOR cells
\* of its input form a single 8-connected region, the FLOOR cells of its
\* output form at most one.
MicroSmoothKeepsConnected ==
    (last = "smooth" /\ NumFloorRegions(prev) = 1) => NumFloorRegions(grid) <= 1

====
